---- MODULE Spec2Model ----
(***************************************************************************)
(* Frame-resource pipelining and CPU/GPU fence synchronisation of the two *)
(* Direct3D 12 demo applications of the repository, LitColumnsApp and     *)
(* CastleApp.  The CPU thread runs Initialize and then the frame loop      *)
(* Update ; Draw.  The GPU timeline consumes the command queue in order.   *)
(* The only communication between the two is the fence.                    *)
(***************************************************************************)
EXTENDS Integers, Sequences, FiniteSets, TLC

VARIABLES
    app,                     \* which application runs: "LitColumnsApp" or "CastleApp"
    pc,                      \* position of the CPU thread
    mFrameResources,         \* slot -> [Fence, ObjectCB, MaterialCB, PassCB, WavesVB]
    mCurrFrameResource,      \* pointer to the current frame resource (NullPtr or a slot)
    mCurrFrameResourceIndex,
    mCurrentFence,           \* last fence value the CPU asked the queue to signal
    mFence,                  \* the fence object's completed value (advanced by the GPU)
    mCommandQueue,           \* commands submitted to the GPU and not yet finished
    mMaterials,              \* name -> Material
    mAllRitems,              \* sequence of RenderItem
    gt,                      \* the GameTimer seen by the current Update
    mWaves,                  \* the wave simulation's current solution (CastleApp)
    wavesVertexBufferGPU,    \* mWavesRitem->Geo->VertexBufferGPU (NullPtr or a slot)
    eventHandle,             \* the HANDLE of the wait of the latest Update
    numMutations,            \* transform mutations made by the scene authoring step
    framesSinceDirty,        \* history: UpdateObjectCBs passes since an item was marked dirty
    uploadBuffer,            \* one UploadBuffer<T> taken by itself, byte by byte
    copyDataCall             \* history: the arguments of the latest CopyData on it

\* the state of the application
appVars == <<app, pc, mFrameResources, mCurrFrameResource, mCurrFrameResourceIndex,
          mCurrentFence, mFence, mCommandQueue, mMaterials, mAllRitems, gt,
          mWaves, wavesVertexBufferGPU, eventHandle, numMutations,
          framesSinceDirty>>

vars == <<appVars, uploadBuffer, copyDataCall>>

(***************************************************************************)
(* Program constants and bounds of the model.                              *)
(***************************************************************************)
gNumFrameResources == 3

\* fixed-point image of the floats of AnimateMaterials: 1.0f, 0.1f and 0.02f
One == 10
TuRate == 5
TvRate == 1

NumRitems == 2          \* render items built by BuildRenderItems
NumVertices == 2        \* mWaves->VertexCount()
MaxFence == 6           \* the frame loop stops submitting at this fence value
MaxMutations == 1       \* transform mutations by the scene authoring step
WavePeriod == 3         \* distinct solutions of the wave simulation

Apps == {"LitColumnsApp", "CastleApp"}
Slots == 0 .. (gNumFrameResources - 1)
NullPtr == -1
NoFrameResource == -1   \* a command list that references no frame resource

(***************************************************************************)
(* Matrices.  A 4x4 matrix is kept by the entries the code touches,        *)
(* (3,0) and (3,1), and their mirror images (0,3) and (1,3).               *)
(***************************************************************************)
Identity4x4 == [m30 |-> 0, m31 |-> 0, m03 |-> 0, m13 |-> 0]

XMMatrixTranslation(x, y) == [m30 |-> x, m31 |-> y, m03 |-> 0, m13 |-> 0]

XMMatrixTranspose(M) == [m30 |-> M.m03, m31 |-> M.m13, m03 |-> M.m30, m13 |-> M.m31]

\* the transforms the scene authoring step chooses from
Worlds == {XMMatrixTranslation(1, 1), XMMatrixTranslation(2, 1)}

\* content of an upload buffer record that was never written
Uninitialized == [uninitialized |-> TRUE]

(***************************************************************************)
(* Scene construction.                                                     *)
(***************************************************************************)
\* the materials of BuildMaterials with an index used twice
MaterialTableSharedIndex(a) ==
    IF a = "LitColumnsApp"
    THEN << [Name |-> "bricks0",  MatCBIndex |-> 0, Roughness |-> 100],
            [Name |-> "stone0",   MatCBIndex |-> 1, Roughness |-> 300],
            [Name |-> "greenMat", MatCBIndex |-> 2, Roughness |-> 200],
            [Name |-> "brownMat", MatCBIndex |-> 2, Roughness |-> 300] >>
    ELSE << [Name |-> "grass",       MatCBIndex |-> 0, Roughness |-> 125],
            [Name |-> "water",       MatCBIndex |-> 1, Roughness |-> 0],
            [Name |-> "tile",        MatCBIndex |-> 1, Roughness |-> 250],
            [Name |-> "wood",        MatCBIndex |-> 3, Roughness |-> 250],
            [Name |-> "metal",       MatCBIndex |-> 4, Roughness |-> 250],
            [Name |-> "glass",       MatCBIndex |-> 5, Roughness |-> 250],
            [Name |-> "ice",         MatCBIndex |-> 6, Roughness |-> 250],
            [Name |-> "stone",       MatCBIndex |-> 7, Roughness |-> 250],
            [Name |-> "brick2",      MatCBIndex |-> 8, Roughness |-> 250],
            [Name |-> "treeSprites", MatCBIndex |-> 9, Roughness |-> 125] >>

\* the materials of BuildMaterials, in the order they are configured;
\* Roughness is kept in thousandths
MaterialTable(a) ==
    IF a = "LitColumnsApp"
    THEN << [Name |-> "bricks0",  MatCBIndex |-> 0, Roughness |-> 100],
            [Name |-> "stone0",   MatCBIndex |-> 1, Roughness |-> 300],
            [Name |-> "greenMat", MatCBIndex |-> 2, Roughness |-> 200],
            [Name |-> "brownMat", MatCBIndex |-> 4, Roughness |-> 300] >>
    ELSE << [Name |-> "grass",       MatCBIndex |-> 0, Roughness |-> 125],
            [Name |-> "water",       MatCBIndex |-> 1, Roughness |-> 0],
            [Name |-> "tile",        MatCBIndex |-> 2, Roughness |-> 250],
            [Name |-> "wood",        MatCBIndex |-> 3, Roughness |-> 250],
            [Name |-> "metal",       MatCBIndex |-> 4, Roughness |-> 250],
            [Name |-> "glass",       MatCBIndex |-> 5, Roughness |-> 250],
            [Name |-> "ice",         MatCBIndex |-> 6, Roughness |-> 250],
            [Name |-> "stone",       MatCBIndex |-> 7, Roughness |-> 250],
            [Name |-> "brick2",      MatCBIndex |-> 8, Roughness |-> 250],
            [Name |-> "treeSprites", MatCBIndex |-> 9, Roughness |-> 125] >>

MaterialNames(a) == {MaterialTable(a)[k].Name : k \in DOMAIN MaterialTable(a)}

\* a Material as its struct declares it: identity transform, dirty for every
\* frame resource
Material(entry) ==
    [Name |-> entry.Name, MatCBIndex |-> entry.MatCBIndex,
     Roughness |-> entry.Roughness, MatTransform |-> Identity4x4,
     NumFramesDirty |-> gNumFrameResources]

\* mMaterials[name] = std::move(material), for every configured material
BuildMaterials(a) ==
    [n \in MaterialNames(a) |->
        Material(CHOOSE e \in {MaterialTable(a)[k] : k \in DOMAIN MaterialTable(a)} :
                    e.Name = n)]

\* the material of the i-th render item pushed by BuildRenderItems
RitemMaterial(a, i) ==
    IF a = "LitColumnsApp"
    THEN (IF i = 1 THEN "greenMat" ELSE IF i <= 3 THEN "brownMat" ELSE "stone0")
    ELSE (IF i = 1 THEN "grass" ELSE IF i = 2 THEN "water" ELSE "treeSprites")

\* a RenderItem as its struct declares it; the default ObjCBIndex, written
\* -1, is replaced in every item that is built
RenderItem ==
    [World |-> Identity4x4, TexTransform |-> Identity4x4,
     NumFramesDirty |-> gNumFrameResources, ObjCBIndex |-> -1, Mat |-> "nullptr"]

\* the last item pushed without the assignment of its ObjCBIndex
BuildRenderItemsUnindexed(a) ==
    [i \in 1 .. NumRitems |->
        [RenderItem EXCEPT !.World = XMMatrixTranslation(0, i),
                           !.ObjCBIndex = IF i = NumRitems THEN @ ELSE i - 1,
                           !.Mat = RitemMaterial(a, i)]]

\* every item takes ObjCBIndex = objCBIndex++ and is pushed to mAllRitems
BuildRenderItems(a) ==
    [i \in 1 .. NumRitems |->
        [RenderItem EXCEPT !.World = XMMatrixTranslation(0, i),
                           !.ObjCBIndex = i - 1,
                           !.Mat = RitemMaterial(a, i)]]

\* index of mWavesRitem in mAllRitems (CastleApp::BuildWaves)
WavesRitemIndex == 2

(***************************************************************************)
(* Upload buffers and frame resources.                                     *)
(***************************************************************************)
\* UploadBuffer<T>(device, elementCount, isConstantBuffer): elementCount
\* records, mapped and not yet written
UploadBuffer(elementCount) == [i \in 0 .. (elementCount - 1) |-> Uninitialized]

\* UploadBuffer::CopyData(elementIndex, data).  An index outside the buffer
\* writes outside the resource: no record of the buffer changes.
CopyData(buffer, elementIndex, data) ==
    IF elementIndex \in DOMAIN buffer
    THEN [buffer EXCEPT ![elementIndex] = data]
    ELSE buffer

\* the record a draw call bound at elementIndex reads; outside the buffer
\* the read is not of this buffer
GarbageRecord == [garbage |-> TRUE]

ReadRecord(buffer, elementIndex) ==
    IF elementIndex \in DOMAIN buffer THEN buffer[elementIndex] ELSE GarbageRecord

FrameResource(passCount, objectCount, materialCount, waveVertCount) ==
    [Fence |-> 0,
     PassCB |-> UploadBuffer(passCount),
     ObjectCB |-> UploadBuffer(objectCount),
     MaterialCB |-> UploadBuffer(materialCount),
     WavesVB |-> UploadBuffer(waveVertCount)]

\* LitColumnsApp builds its frame resources without a waves buffer
WaveVertexCount(a) == IF a = "CastleApp" THEN NumVertices ELSE 0

\* the frame resources built before the materials and the render items
BuildFrameResourcesBeforeScene(a, ritems, materials) ==
    [s \in Slots |-> FrameResource(1, 0, 0, WaveVertexCount(a))]

BuildFrameResources(a, ritems, materials) ==
    [s \in Slots |->
        FrameResource(1, Len(ritems), Cardinality(DOMAIN materials),
                      WaveVertexCount(a))]

\* no UploadBuffer is taken by itself, no CopyData was called on it
NoUploadBuffer == << >>
NoCopyDataCall == << >>

(***************************************************************************)
(* The per-frame update, as the code computes it.                          *)
(***************************************************************************)
\* the ring index taken modulo one less than the number of frame resources
NextFrameResourceIndexShortRing(index) == (index + 1) % (gNumFrameResources - 1)

\* the ring walked backwards
NextFrameResourceIndexBackward(index) ==
    (index + gNumFrameResources - 1) % gNumFrameResources

\* mCurrFrameResourceIndex = (mCurrFrameResourceIndex + 1) % gNumFrameResources
NextFrameResourceIndex(index) == (index + 1) % gNumFrameResources

\* the wait condition off by one: a fence one short of the marker passes
MustWaitOffByOne(fence, completedValue) == fence # 0 /\ completedValue + 1 < fence

\* the wait condition with == for !=: no submitted slot is ever waited on
MustWaitOnlyUnsubmitted(fence, completedValue) == fence = 0 /\ completedValue < fence

\* the wait condition with <= for <: a marker just reached is waited for
MustWaitOrEqual(fence, completedValue) == fence # 0 /\ completedValue <= fence

\* the wait condition testing the last submitted fence value in place of the
\* slot's marker
MustWaitForLastFrame(fence, completedValue) == completedValue < mCurrentFence

\* the wait condition with the comparison turned round
MustWaitFlipped(fence, completedValue) == fence # 0 /\ completedValue > fence

\* Fence != 0 && mFence->GetCompletedValue() < Fence
MustWait(fence, completedValue) == fence # 0 /\ completedValue < fence

\* the dirty test with >= for >
IsDirtyOrClean(numFramesDirty) == numFramesDirty >= 0

\* if (e->NumFramesDirty > 0)
IsDirty(numFramesDirty) == numFramesDirty > 0

\* the counter taken down by two per copy
DecrementDirtyTwice(numFramesDirty) == numFramesDirty - 2

\* e->NumFramesDirty--
DecrementDirty(numFramesDirty) == numFramesDirty - 1

\* the counter left as it was where it should be reset
MarkDirtyNever(numFramesDirty) == numFramesDirty

\* the counter incremented where it should be reset
MarkDirtyIncrement(numFramesDirty) == numFramesDirty + 1

\* the counter used as a flag
MarkDirtyFlag(numFramesDirty) == 1

\* NumFramesDirty = gNumFrameResources, whatever the counter was
MarkDirty(numFramesDirty) == gNumFrameResources

\* tu += rate * dt; if (tu >= 1.0f) tu -= 1.0f
Scroll(t, rate, dt) ==
    LET moved == t + rate * dt
    IN  IF moved >= One THEN moved - One ELSE moved

ObjectConstants(e) ==
    [World |-> XMMatrixTranspose(e.World),
     TexTransform |-> XMMatrixTranspose(e.TexTransform)]

MaterialConstants(mat) ==
    [Roughness |-> mat.Roughness,
     MatTransform |-> XMMatrixTranspose(mat.MatTransform)]

\* the loop of UpdateObjectCBs over mAllRitems from item i on; yields the
\* buffer and the items as the loop leaves them
RECURSIVE ObjectCBLoop(_, _, _)
ObjectCBLoop(i, currObjectCB, ritems) ==
    IF i > Len(ritems)
    THEN [cb |-> currObjectCB, ritems |-> ritems]
    ELSE IF IsDirty(ritems[i].NumFramesDirty)
         THEN ObjectCBLoop(i + 1,
                  CopyData(currObjectCB, ritems[i].ObjCBIndex, ObjectConstants(ritems[i])),
                  [ritems EXCEPT ![i].NumFramesDirty = DecrementDirty(@)])
         ELSE ObjectCBLoop(i + 1, currObjectCB, ritems)

\* the loop of UpdateMaterialCBs over the materials named in order
RECURSIVE MaterialCBLoop(_, _, _, _)
MaterialCBLoop(k, order, currMaterialCB, materials) ==
    IF k > Len(order)
    THEN [cb |-> currMaterialCB, materials |-> materials]
    ELSE LET mat == materials[order[k]]
         IN  IF IsDirty(mat.NumFramesDirty)
             THEN MaterialCBLoop(k + 1, order,
                      CopyData(currMaterialCB, mat.MatCBIndex, MaterialConstants(mat)),
                      [materials EXCEPT ![order[k]].NumFramesDirty = DecrementDirty(@)])
             ELSE MaterialCBLoop(k + 1, order, currMaterialCB, materials)

\* the order in which the loop visits mMaterials; an unordered_map fixes
\* none, and the in-range indices are distinct, so the result does not
\* depend on it
MaterialOrder(a) == [k \in DOMAIN MaterialTable(a) |-> MaterialTable(a)[k].Name]

\* a dirty material whose CopyData index lies outside the material buffer
CopiesOutOfBuffer(currMaterialCB, materials) ==
    \E n \in DOMAIN materials :
        /\ IsDirty(materials[n].NumFramesDirty)
        /\ materials[n].MatCBIndex \notin DOMAIN currMaterialCB

\* mMainPassCB filled with the time of the frame before
PassConstantsStaleTime(view, timer) ==
    [View |-> XMMatrixTranspose(view),
     TotalTime |-> timer.TotalTime - timer.DeltaTime, DeltaTime |-> timer.DeltaTime]

\* mMainPassCB as UpdateMainPassCB fills it
PassConstants(view, timer) ==
    [View |-> XMMatrixTranspose(view),
     TotalTime |-> timer.TotalTime, DeltaTime |-> timer.DeltaTime]

\* the camera's view matrix
mView == XMMatrixTranslation(2, 3)

\* mWaves->Update(dt): the simulation moves to another solution
WavesUpdate(solution, dt) == (solution + dt) % WavePeriod

\* the Vertex built from mWaves->Position(i)
WaveVertex(solution, i) == [Pos |-> (solution + i) % WavePeriod]

\* the loop of UpdateWaves stopping one vertex short
RECURSIVE WavesVBLoopShort(_, _, _)
WavesVBLoopShort(i, currWavesVB, solution) ==
    IF i >= NumVertices - 1
    THEN currWavesVB
    ELSE WavesVBLoopShort(i + 1, CopyData(currWavesVB, i, WaveVertex(solution, i)),
                          solution)

\* the loop of UpdateWaves: every vertex is copied
RECURSIVE WavesVBLoop(_, _, _)
WavesVBLoop(i, currWavesVB, solution) ==
    IF i >= NumVertices
    THEN currWavesVB
    ELSE WavesVBLoop(i + 1, CopyData(currWavesVB, i, WaveVertex(solution, i)), solution)

(***************************************************************************)
(* The command queue and the fence.                                        *)
(***************************************************************************)
\* the draw calls recorded against the first frame resource, whichever is
\* current
ExecuteCommandListsFirstSlot(fr) == [op |-> "Execute", fr |-> 0, value |-> 0]

\* ExecuteCommandLists of a command list recorded against frame resource fr
ExecuteCommandLists(fr) == [op |-> "Execute", fr |-> fr, value |-> 0]

\* mCommandQueue->Signal(mFence, value)
Signal(value) == [op |-> "Signal", fr |-> NoFrameResource, value |-> value]

\* the GPU has not finished a command list recorded against frame resource s
InFlight(s) ==
    \E k \in DOMAIN mCommandQueue :
        mCommandQueue[k].op = "Execute" /\ mCommandQueue[k].fr = s

\* FlushCommandQueue returning without the wait
FlushCommandQueueNoWait(currentFence, completedValue) == TRUE

\* FlushCommandQueue returns once the fence has reached mCurrentFence
FlushCommandQueueDone(currentFence, completedValue) == completedValue >= currentFence

\* the fence value wrapping round after a few frames
NextFenceWrap(currentFence) == (currentFence + 1) % (gNumFrameResources + 1)

\* the fence value left where it was
NextFenceStuck(currentFence) == currentFence

\* ++mCurrentFence
NextFence(currentFence) == currentFence + 1

\* a wait that gives up: the call returns whatever the fence has reached
EventSetOrTimedOut(fence, completedValue) == TRUE

\* the event fires only when the completed value is exactly the awaited one
EventSetExact(fence, completedValue) == completedValue = fence

\* the event registered for the fence value before the marker
EventSetEarly(fence, completedValue) == completedValue >= fence - 1

\* the event of SetEventOnCompletion(fence, event) is set once the fence has
\* reached that value
EventSet(fence, completedValue) == completedValue >= fence

\* eventHandle before Update has called CreateEventEx
NoHandle == "none"

\* what CreateEventEx returns: a handle, or NULL when it fails
CreateEventExResults == {"valid", "NULL"}

\* a handle after CloseHandle
ClosedHandle == "closed"

\* the HRESULTs of SetEventOnCompletion
HResults == {"S_OK", "E_FAIL"}

\* ThrowIfFailed throws a DxException for these
Failed(hr) == hr # "S_OK"

\* gt.DeltaTime(), in timer ticks
DeltaTimes == {1}

(***************************************************************************)
(* Initial state: the application object is constructed, not initialized.  *)
(* The base class D3DApp sets up device, queue and fence; the fence and    *)
(* mCurrentFence start at 0.                                               *)
(***************************************************************************)
AppInit ==
    /\ app \in Apps
    /\ pc = "Initialize"
    /\ mFrameResources = << >>
    /\ mCurrFrameResource = NullPtr
    /\ mCurrFrameResourceIndex = 0
    /\ mCurrentFence = 0
    /\ mFence = 0
    /\ mCommandQueue = << >>
    /\ mMaterials = << >>
    /\ mAllRitems = << >>
    /\ gt = [TotalTime |-> 0, DeltaTime |-> 0]
    /\ mWaves = 0
    /\ wavesVertexBufferGPU = NullPtr
    /\ eventHandle = NoHandle
    /\ numMutations = 0
    /\ framesSinceDirty = << >>

Init ==
    /\ AppInit
    /\ uploadBuffer = NoUploadBuffer
    /\ copyDataCall = NoCopyDataCall

(***************************************************************************)
(* CPU thread.                                                             *)
(***************************************************************************)
\* Initialize up to the call of FlushCommandQueue: the scene and the frame
\* resources are built, the initialization commands are submitted and a
\* fence point is set after them
Initialize ==
    /\ pc = "Initialize"
    /\ mMaterials' = BuildMaterials(app)
    /\ mAllRitems' = BuildRenderItems(app)
    /\ mFrameResources' = BuildFrameResources(app, mAllRitems', mMaterials')
    /\ mCurrentFence' = mCurrentFence + 1
    /\ mCommandQueue' = mCommandQueue \o
           << ExecuteCommandLists(NoFrameResource), Signal(mCurrentFence') >>
    /\ framesSinceDirty' = [i \in DOMAIN mAllRitems' |-> 0]
    /\ pc' = "FlushCommandQueue"
    /\ UNCHANGED <<uploadBuffer, copyDataCall, app, mCurrFrameResource, mCurrFrameResourceIndex, mFence, gt,
                   mWaves, wavesVertexBufferGPU, eventHandle, numMutations>>

\* FlushCommandQueue returns and Initialize with it: the frame loop starts
InitializeReturn ==
    /\ pc = "FlushCommandQueue"
    /\ FlushCommandQueueDone(mCurrentFence, mFence)
    /\ pc' = "Idle"
    /\ UNCHANGED <<uploadBuffer, copyDataCall, app, mFrameResources, mCurrFrameResource, mCurrFrameResourceIndex,
                   mCurrentFence, mFence, mCommandQueue, mMaterials, mAllRitems, gt,
                   mWaves, wavesVertexBufferGPU, eventHandle, numMutations, framesSinceDirty>>

\* Update up to the wait: the timer has ticked by dt, the ring index advances
\* and the fence is polled; if the slot must be waited for, CreateEventEx
\* returns handle, which the code does not test
Update(dt, handle) ==
    /\ pc = "Idle"
    /\ mCurrentFence < MaxFence
    /\ gt' = [TotalTime |-> gt.TotalTime + dt, DeltaTime |-> dt]
    /\ mCurrFrameResourceIndex' = NextFrameResourceIndex(mCurrFrameResourceIndex)
    /\ mCurrFrameResource' = mCurrFrameResourceIndex'
    /\ IF MustWait(mFrameResources[mCurrFrameResource'].Fence, mFence)
       THEN pc' = "SetEventOnCompletion" /\ eventHandle' = handle
       ELSE pc' = "AnimateMaterials" /\ eventHandle' = NoHandle
    /\ UNCHANGED <<uploadBuffer, copyDataCall, app, mFrameResources, mCurrentFence, mFence, mCommandQueue,
                   mMaterials, mAllRitems, mWaves, wavesVertexBufferGPU,
                   numMutations, framesSinceDirty>>

\* ThrowIfFailed(mFence->SetEventOnCompletion(Fence, eventHandle)): a failed
\* HRESULT throws a DxException out of Update; with a NULL handle the call
\* itself returns only once the fence has reached the value
SetEventOnCompletion(hr) ==
    /\ pc = "SetEventOnCompletion"
    /\ IF Failed(hr)
       THEN pc' = "DxException"
       ELSE /\ eventHandle = "NULL" =>
                  EventSet(mFrameResources[mCurrFrameResource].Fence, mFence)
            /\ pc' = "WaitForSingleObject"
    /\ UNCHANGED <<uploadBuffer, copyDataCall, app, mFrameResources, mCurrFrameResource, mCurrFrameResourceIndex,
                   mCurrentFence, mFence, mCommandQueue, mMaterials, mAllRitems, gt,
                   mWaves, wavesVertexBufferGPU, eventHandle, numMutations,
                   framesSinceDirty>>

\* WaitForSingleObject(eventHandle, INFINITE) returns, at once for a NULL
\* handle, and CloseHandle(eventHandle) follows; neither result is tested
WaitForSingleObject ==
    /\ pc = "WaitForSingleObject"
    /\ eventHandle # "NULL" =>
           EventSet(mFrameResources[mCurrFrameResource].Fence, mFence)
    /\ eventHandle' = IF eventHandle = "NULL" THEN eventHandle ELSE ClosedHandle
    /\ pc' = "AnimateMaterials"
    /\ UNCHANGED <<uploadBuffer, copyDataCall, app, mFrameResources, mCurrFrameResource, mCurrFrameResourceIndex,
                   mCurrentFence, mFence, mCommandQueue, mMaterials, mAllRitems, gt,
                   mWaves, wavesVertexBufferGPU, numMutations, framesSinceDirty>>

\* ~CastleApp: md3dDevice is not null once Initialize has returned, so the
\* destructor calls FlushCommandQueue, which advances the fence and queues
\* its Signal; to is the place of the thread while the flush waits
Destructor(to) ==
    /\ mCurrentFence' = mCurrentFence + 1
    /\ mCommandQueue' = Append(mCommandQueue, Signal(mCurrentFence'))
    /\ pc' = to
    /\ UNCHANGED <<uploadBuffer, copyDataCall, app, mFrameResources, mCurrFrameResource, mCurrFrameResourceIndex,
                   mFence, mMaterials, mAllRitems, gt,
                   mWaves, wavesVertexBufferGPU, eventHandle, numMutations,
                   framesSinceDirty>>

\* theApp.Run() returns between two frames (the window was closed) and
\* theApp goes out of scope
Quit ==
    /\ pc = "Idle"
    /\ Destructor("~CastleApp")

\* the DxException leaves the try block of WinMain: theApp is destroyed
\* before the handler runs
Unwind ==
    /\ pc = "DxException"
    /\ Destructor("~CastleApp (unwinding)")

\* the destructor's FlushCommandQueue returns, the destructor ends and the
\* members, the frame resources among them, are released; WinMain returns or
\* its handler is entered
DestructorReturn ==
    /\ pc \in {"~CastleApp", "~CastleApp (unwinding)"}
    /\ FlushCommandQueueDone(mCurrentFence, mFence)
    /\ pc' = IF pc = "~CastleApp" THEN "Exited" ELSE "catch"
    /\ UNCHANGED <<uploadBuffer, copyDataCall, app, mFrameResources, mCurrFrameResource, mCurrFrameResourceIndex,
                   mCurrentFence, mFence, mCommandQueue, mMaterials, mAllRitems, gt,
                   mWaves, wavesVertexBufferGPU, eventHandle, numMutations,
                   framesSinceDirty>>

\* WinMain's handler of DxException: MessageBox reports the error and
\* WinMain returns 0
WinMainCatch ==
    /\ pc = "catch"
    /\ pc' = "Exited"
    /\ UNCHANGED <<uploadBuffer, copyDataCall, app, mFrameResources, mCurrFrameResource, mCurrFrameResourceIndex,
                   mCurrentFence, mFence, mCommandQueue, mMaterials, mAllRitems, gt,
                   mWaves, wavesVertexBufferGPU, eventHandle, numMutations,
                   framesSinceDirty>>

\* CastleApp scrolls the water material and marks it dirty; LitColumnsApp's
\* AnimateMaterials is empty
AnimateMaterials ==
    /\ pc = "AnimateMaterials"
    /\ mMaterials' =
         IF app = "CastleApp"
         THEN [mMaterials EXCEPT
                 !["water"].MatTransform.m30 = Scroll(@, TuRate, gt.DeltaTime),
                 !["water"].MatTransform.m31 = Scroll(@, TvRate, gt.DeltaTime),
                 !["water"].NumFramesDirty = MarkDirty(@)]
         ELSE mMaterials
    /\ pc' = "UpdateObjectCBs"
    /\ UNCHANGED <<uploadBuffer, copyDataCall, app, mFrameResources, mCurrFrameResource, mCurrFrameResourceIndex,
                   mCurrentFence, mFence, mCommandQueue, mAllRitems, gt,
                   mWaves, wavesVertexBufferGPU, eventHandle, numMutations, framesSinceDirty>>

UpdateObjectCBs ==
    /\ pc = "UpdateObjectCBs"
    /\ LET done == ObjectCBLoop(1, mFrameResources[mCurrFrameResource].ObjectCB,
                                mAllRitems)
       IN  /\ mFrameResources' =
                 [mFrameResources EXCEPT ![mCurrFrameResource].ObjectCB = done.cb]
           /\ mAllRitems' = done.ritems
    /\ framesSinceDirty' =
         [i \in DOMAIN framesSinceDirty |->
             IF framesSinceDirty[i] < gNumFrameResources
             THEN framesSinceDirty[i] + 1 ELSE framesSinceDirty[i]]
    /\ pc' = "UpdateMaterialCBs"
    /\ UNCHANGED <<uploadBuffer, copyDataCall, app, mCurrFrameResource, mCurrFrameResourceIndex, mCurrentFence,
                   mFence, mCommandQueue, mMaterials, gt, mWaves,
                   wavesVertexBufferGPU, eventHandle, numMutations>>

\* A CopyData outside the buffer either leaves every buffer as it was or
\* ends the process with an access violation.
UpdateMaterialCBs ==
    /\ pc = "UpdateMaterialCBs"
    /\ \/ LET done == MaterialCBLoop(1, MaterialOrder(app),
                          mFrameResources[mCurrFrameResource].MaterialCB, mMaterials)
          IN  /\ mFrameResources' =
                    [mFrameResources EXCEPT ![mCurrFrameResource].MaterialCB = done.cb]
              /\ mMaterials' = done.materials
              /\ pc' = "UpdateMainPassCB"
       \/ /\ CopiesOutOfBuffer(mFrameResources[mCurrFrameResource].MaterialCB, mMaterials)
          /\ pc' = "Crashed"
          /\ UNCHANGED <<mFrameResources, mMaterials>>
    /\ UNCHANGED <<uploadBuffer, copyDataCall, app, mCurrFrameResource, mCurrFrameResourceIndex, mCurrentFence,
                   mFence, mCommandQueue, mAllRitems, gt, mWaves,
                   wavesVertexBufferGPU, eventHandle, numMutations, framesSinceDirty>>

UpdateMainPassCB ==
    /\ pc = "UpdateMainPassCB"
    /\ mFrameResources' =
         [mFrameResources EXCEPT ![mCurrFrameResource].PassCB =
             CopyData(@, 0, PassConstants(mView, gt))]
    /\ pc' = IF app = "CastleApp" THEN "UpdateWaves" ELSE "Draw"
    /\ UNCHANGED <<uploadBuffer, copyDataCall, app, mCurrFrameResource, mCurrFrameResourceIndex, mCurrentFence,
                   mFence, mCommandQueue, mMaterials, mAllRitems, gt, mWaves,
                   wavesVertexBufferGPU, eventHandle, numMutations, framesSinceDirty>>

UpdateWaves ==
    /\ pc = "UpdateWaves"
    /\ mWaves' = WavesUpdate(mWaves, gt.DeltaTime)
    /\ mFrameResources' =
         [mFrameResources EXCEPT ![mCurrFrameResource].WavesVB =
             WavesVBLoop(0, @, mWaves')]
    /\ wavesVertexBufferGPU' = mCurrFrameResource
    /\ pc' = "Draw"
    /\ UNCHANGED <<uploadBuffer, copyDataCall, app, mCurrFrameResource, mCurrFrameResourceIndex, mCurrentFence,
                   mFence, mCommandQueue, mMaterials, mAllRitems, gt,
                   eventHandle, numMutations, framesSinceDirty>>

\* Draw: the allocator of the current frame resource is reset, the commands
\* are recorded against it and submitted, the fence is advanced, stored as
\* the frame resource's marker and a Signal is queued behind the commands
Draw ==
    /\ pc = "Draw"
    /\ mCurrentFence' = NextFence(mCurrentFence)
    /\ mFrameResources' =
         [mFrameResources EXCEPT ![mCurrFrameResource].Fence = mCurrentFence']
    /\ mCommandQueue' = mCommandQueue \o
           << ExecuteCommandLists(mCurrFrameResource), Signal(mCurrentFence') >>
    /\ pc' = "Idle"
    /\ UNCHANGED <<uploadBuffer, copyDataCall, app, mCurrFrameResource, mCurrFrameResourceIndex, mFence,
                   mMaterials, mAllRitems, gt, mWaves, wavesVertexBufferGPU,
                   eventHandle, numMutations, framesSinceDirty>>

\* The scene authoring step changes the transform of render item i between
\* two frames and, as the RenderItem struct asks, marks it dirty for every
\* frame resource.
MutateRitem(i, world) ==
    /\ pc = "Idle"
    /\ numMutations < MaxMutations
    /\ i \in DOMAIN mAllRitems
    /\ mAllRitems' = [mAllRitems EXCEPT ![i].World = world,
                                        ![i].NumFramesDirty = MarkDirty(@)]
    /\ framesSinceDirty' = [framesSinceDirty EXCEPT ![i] = 0]
    /\ numMutations' = numMutations + 1
    /\ UNCHANGED <<uploadBuffer, copyDataCall, app, pc, mFrameResources, mCurrFrameResource,
                   mCurrFrameResourceIndex, mCurrentFence, mFence, mCommandQueue,
                   mMaterials, gt, mWaves, wavesVertexBufferGPU, eventHandle>>

(***************************************************************************)
(* GPU timeline: the queue is consumed in submission order.                *)
(***************************************************************************)
GpuExecute ==
    /\ mCommandQueue # << >>
    /\ Head(mCommandQueue).op = "Execute"
    /\ mCommandQueue' = Tail(mCommandQueue)
    /\ UNCHANGED <<uploadBuffer, copyDataCall, app, pc, mFrameResources, mCurrFrameResource,
                   mCurrFrameResourceIndex, mCurrentFence, mFence, mMaterials,
                   mAllRitems, gt, mWaves, wavesVertexBufferGPU, eventHandle, numMutations,
                   framesSinceDirty>>

GpuSignal ==
    /\ mCommandQueue # << >>
    /\ Head(mCommandQueue).op = "Signal"
    /\ mFence' = Head(mCommandQueue).value
    /\ mCommandQueue' = Tail(mCommandQueue)
    /\ UNCHANGED <<uploadBuffer, copyDataCall, app, pc, mFrameResources, mCurrFrameResource,
                   mCurrFrameResourceIndex, mCurrentFence, mMaterials,
                   mAllRitems, gt, mWaves, wavesVertexBufferGPU, eventHandle, numMutations,
                   framesSinceDirty>>

Next ==
    \/ Initialize
    \/ InitializeReturn
    \/ \E dt \in DeltaTimes, handle \in CreateEventExResults : Update(dt, handle)
    \/ \E hr \in HResults : SetEventOnCompletion(hr)
    \/ WaitForSingleObject
    \/ Unwind
    \/ DestructorReturn
    \/ WinMainCatch
    \/ AnimateMaterials
    \/ UpdateObjectCBs
    \/ UpdateMaterialCBs
    \/ UpdateMainPassCB
    \/ UpdateWaves
    \/ Draw
    \/ Quit
    \/ \E i \in 1 .. NumRitems, world \in Worlds : MutateRitem(i, world)
    \/ GpuExecute
    \/ GpuSignal

Spec == Init /\ [][Next]_vars

(***************************************************************************)
(* Properties.                                                             *)
(***************************************************************************)
\* the CPU is past the advance step of Update: in the constant-buffer
\* updates or about to reset the allocator in Draw
AfterAdvance ==
    pc \in {"AnimateMaterials", "UpdateObjectCBs", "UpdateMaterialCBs",
            "UpdateMainPassCB", "UpdateWaves", "Draw"}

\* the CPU is inside a frame: Update has advanced the index and Draw has not
\* yet submitted
InFrame == AfterAdvance \/ pc \in {"SetEventOnCompletion", "WaitForSingleObject"}

\* the destructor of the application has been entered
InShutdown == pc \in {"~CastleApp", "~CastleApp (unwinding)", "catch", "Exited"}

\* the number of the frame the CPU is in, counted from 0: Initialize's flush
\* takes fence value 1, every Draw takes the next and so does the flush of
\* the destructor
FrameNumber == IF InShutdown THEN mCurrentFence - 2 ELSE mCurrentFence - 1

\* the marker stored in the current frame resource
CurrentMarker == mFrameResources[mCurrFrameResource].Fence

\* the fence has reached the marker of slot s, or s was never submitted
Retired(s) == mFrameResources[s].Fence = 0 \/ mFence >= mFrameResources[s].Fence

\* C1 Slot reuse safety: whenever the CPU is past the advance step (at any
\* CopyData into the selected frame resource or at the allocator reset), the
\* selected slot's marker is 0 or the fence's completed value has reached it;
\* and the CPU is blocked in the wait only for a nonzero marker.
SlotReuseSafety ==
    /\ AfterAdvance => (CurrentMarker = 0 \/ mFence >= CurrentMarker)
    /\ pc = "WaitForSingleObject" => CurrentMarker # 0

\* C1 witness: the CPU is past the advance step on a slot it has submitted
\* before, the fence stands exactly at that slot's marker and the GPU still
\* has later frames to finish
SlotReuseWitness ==
    /\ AfterAdvance
    /\ CurrentMarker # 0
    /\ mFence = CurrentMarker
    /\ mCommandQueue # << >>

\* C3 Propagation completeness: a render item that has gone through k update
\* passes since it was last marked dirty has counter N - k; after exactly N
\* passes the counter is 0 and every frame resource holds the payload of the
\* item's transform at the item's ObjCBIndex.
PropagationCompleteness ==
    \A i \in DOMAIN mAllRitems :
        /\ mAllRitems[i].NumFramesDirty = gNumFrameResources - framesSinceDirty[i]
        /\ framesSinceDirty[i] = gNumFrameResources =>
              \A s \in Slots :
                  ReadRecord(mFrameResources[s].ObjectCB, mAllRitems[i].ObjCBIndex)
                      = [World |-> XMMatrixTranspose(mAllRitems[i].World),
                         TexTransform |-> XMMatrixTranspose(mAllRitems[i].TexTransform)]

\* C3 witness: an item whose transform the authoring step changed has been
\* through N update passes since
PropagationWitness ==
    \E i \in DOMAIN mAllRitems :
        /\ mAllRitems[i].World \in Worlds
        /\ framesSinceDirty[i] = gNumFrameResources

\* C4 Allocator reset: when Draw resets the current frame resource's command
\* allocator, the GPU has finished every command list recorded into it: none
\* is left in the queue, and the slot's marker is 0 or reached by the fence.
AllocatorResetSafety ==
    pc = "Draw" =>
        /\ ~InFlight(mCurrFrameResource)
        /\ Retired(mCurrFrameResource)

\* C4 witness: Draw is about to reset the allocator of a slot that was
\* submitted before, while the GPU still works on another frame resource
AllocatorResetWitness ==
    /\ pc = "Draw"
    /\ CurrentMarker # 0
    /\ \E s \in Slots : s # mCurrFrameResource /\ InFlight(s)

\* the CPU-written memory of frame resource s
FrameResourceData(fr) == <<fr.ObjectCB, fr.MaterialCB, fr.PassCB, fr.WavesVB>>

\* C5 No CPU/GPU data race: every step that changes a buffer of a frame
\* resource is a step of the update pass on the current slot, taken when no
\* command list recorded against that slot is left on the GPU timeline.
NoDataRace ==
    [][\A s \in DOMAIN mFrameResources :
          FrameResourceData(mFrameResources'[s]) # FrameResourceData(mFrameResources[s])
              => /\ s = mCurrFrameResource
                 /\ AfterAdvance /\ pc # "Draw"
                 /\ ~InFlight(s)]_vars

\* C5 witness: the update pass is writing a slot that was submitted before
\* (its pass record is already rewritten for this frame) while the GPU has
\* not finished the command lists of another frame resource
NoDataRaceWitness ==
    /\ pc \in {"UpdateWaves", "Draw"}
    /\ CurrentMarker # 0
    /\ mFrameResources[mCurrFrameResource].PassCB[0].TotalTime = gt.TotalTime
    /\ \E s \in Slots : s # mCurrFrameResource /\ InFlight(s)

\* frame resources other than the current one whose submitted work the fence
\* has not yet confirmed
IncompleteOthers == {s \in Slots \ {mCurrFrameResource} : ~Retired(s)}

\* C6 Bounded frames in flight: once Update has run, exactly one frame
\* resource is current (the pointer is the slot of the ring index); after the
\* advance step at most N-1 other frame resources are incomplete and at most
\* N-1 fence points are outstanding; the last frame submitted is never more
\* than N fence points ahead of the GPU.
BoundedInFlight ==
    /\ mCurrFrameResource # NullPtr =>
          /\ mCurrFrameResource \in DOMAIN mFrameResources
          /\ mCurrFrameResource = mCurrFrameResourceIndex
    /\ AfterAdvance =>
          /\ Cardinality(IncompleteOthers) <= gNumFrameResources - 1
          /\ mCurrentFence - mFence <= gNumFrameResources - 1
    /\ FrameNumber + 1 - mFence <= gNumFrameResources

\* C6 witness: after the advance step both other frame resources are still
\* incomplete on the GPU
BoundedInFlightWitness ==
    /\ AfterAdvance
    /\ Cardinality(IncompleteOthers) = gNumFrameResources - 1
    /\ mCurrentFence - mFence = gNumFrameResources - 1

\* C7 No redundant writes: an entity whose counter is 0 keeps counter 0 and
\* its record in every frame resource through every step, except a step that
\* marks it dirty again (counter N).
NoRedundantWrites ==
    [][/\ \A i \in DOMAIN mAllRitems :
             mAllRitems[i].NumFramesDirty = 0 =>
                 \/ mAllRitems'[i].NumFramesDirty = gNumFrameResources
                 \/ /\ mAllRitems'[i].NumFramesDirty = 0
                    /\ \A s \in Slots :
                          ReadRecord(mFrameResources'[s].ObjectCB, mAllRitems[i].ObjCBIndex)
                            = ReadRecord(mFrameResources[s].ObjectCB, mAllRitems[i].ObjCBIndex)
       /\ \A n \in DOMAIN mMaterials :
             mMaterials[n].NumFramesDirty = 0 =>
                 \/ mMaterials'[n].NumFramesDirty = gNumFrameResources
                 \/ /\ mMaterials'[n].NumFramesDirty = 0
                    /\ \A s \in Slots :
                          ReadRecord(mFrameResources'[s].MaterialCB, mMaterials[n].MatCBIndex)
                            = ReadRecord(mFrameResources[s].MaterialCB, mMaterials[n].MatCBIndex)
      ]_vars

\* C7 witness: the fourth frame's UpdateObjectCBs has passed over render items
\* that were all clean, and left them clean
NoRedundantWritesWitness ==
    /\ pc = "UpdateMaterialCBs"
    /\ numMutations = 0
    /\ mCurrentFence = gNumFrameResources + 1
    /\ \A i \in DOMAIN mAllRitems : mAllRitems[i].NumFramesDirty = 0

\* C8 Reset on re-mutation: the step of AnimateMaterials leaves the water
\* material's counter at exactly N whatever it was, and every step that
\* changes a render item's transform leaves that item's counter at exactly N.
ResetOnRemutation ==
    [][/\ (app = "CastleApp" /\ pc = "AnimateMaterials" /\ pc' # pc)
             => mMaterials'["water"].NumFramesDirty = gNumFrameResources
       /\ \A i \in DOMAIN mAllRitems :
             mAllRitems'[i].World # mAllRitems[i].World
                 => mAllRitems'[i].NumFramesDirty = gNumFrameResources
      ]_vars

\* C8 witness: AnimateMaterials has just run in a frame after the first, so
\* the water material's counter was N-1 (one copy made) when it was reset to N
ResetOnRemutationWitness ==
    /\ app = "CastleApp"
    /\ pc = "UpdateObjectCBs"
    /\ mCurrentFence >= 2
    /\ mMaterials["water"].NumFramesDirty = gNumFrameResources
    /\ \E s \in Slots : mFrameResources[s].MaterialCB[1] # Uninitialized

\* the number of records an upload buffer was created with
ElementCount(buffer) == Cardinality(DOMAIN buffer)

\* C2 Freshness at submission: when Draw submits the current frame resource,
\* the record at every render item's ObjCBIndex and at every material's
\* MatCBIndex in the current frame resource's buffers is the payload of the
\* entity's latest authored value.
FreshnessAtSubmission ==
    pc = "Draw" =>
        /\ \A i \in DOMAIN mAllRitems :
              ReadRecord(mFrameResources[mCurrFrameResource].ObjectCB,
                         mAllRitems[i].ObjCBIndex)
                  = [World |-> XMMatrixTranspose(mAllRitems[i].World),
                     TexTransform |-> XMMatrixTranspose(mAllRitems[i].TexTransform)]
        /\ \A n \in DOMAIN mMaterials :
              ReadRecord(mFrameResources[mCurrFrameResource].MaterialCB,
                         mMaterials[n].MatCBIndex)
                  = [Roughness |-> mMaterials[n].Roughness,
                     MatTransform |-> XMMatrixTranspose(mMaterials[n].MatTransform)]

\* frame resources whose copy of render item i is not the payload of its
\* transform
StaleObjectCopies(i) ==
    {s \in Slots :
        ReadRecord(mFrameResources[s].ObjectCB, mAllRitems[i].ObjCBIndex)
            # [World |-> XMMatrixTranspose(mAllRitems[i].World),
               TexTransform |-> XMMatrixTranspose(mAllRitems[i].TexTransform)]}

\* frame resources whose copy of material n is not the payload of its
\* authored value
StaleMaterialCopies(n) ==
    {s \in Slots :
        ReadRecord(mFrameResources[s].MaterialCB, mMaterials[n].MatCBIndex)
            # [Roughness |-> mMaterials[n].Roughness,
               MatTransform |-> XMMatrixTranspose(mMaterials[n].MatTransform)]}

\* C9 Dirty-counter invariant: for every render item and every material the
\* number of frame resources whose stored copy differs from the payload of
\* the latest authored value is at most the entity's NumFramesDirty.
DirtyCounterInvariant ==
    /\ \A i \in DOMAIN mAllRitems :
          Cardinality(StaleObjectCopies(i)) <= mAllRitems[i].NumFramesDirty
    /\ \A n \in DOMAIN mMaterials :
          Cardinality(StaleMaterialCopies(n)) <= mMaterials[n].NumFramesDirty

\* C10 CopyData indices in range: every frame resource's material buffer has
\* mMaterials.size() records and every MatCBIndex is below that; its object
\* buffer has mAllRitems.size() records and every ObjCBIndex is below that;
\* its pass buffer has the one record that index 0 addresses.
CopyIndicesInRange ==
    \A s \in DOMAIN mFrameResources :
        /\ ElementCount(mFrameResources[s].MaterialCB) = Cardinality(DOMAIN mMaterials)
        /\ \A n \in DOMAIN mMaterials :
              /\ mMaterials[n].MatCBIndex >= 0
              /\ mMaterials[n].MatCBIndex < ElementCount(mFrameResources[s].MaterialCB)
        /\ ElementCount(mFrameResources[s].ObjectCB) = Len(mAllRitems)
        /\ \A i \in DOMAIN mAllRitems :
              /\ mAllRitems[i].ObjCBIndex >= 0
              /\ mAllRitems[i].ObjCBIndex < ElementCount(mFrameResources[s].ObjectCB)
        /\ ElementCount(mFrameResources[s].PassCB) = 1

\* the fence values of the Signal commands of a queue, in submission order
SignalValues(queue) ==
    LET IsSignal(c) == c.op = "Signal"
        signals == SelectSeq(queue, IsSignal)
    IN  [k \in DOMAIN signals |-> signals[k].value]

\* C11 Fence monotonicity: no step lowers the fence's completed value; every
\* Draw raises mCurrentFence strictly and no step lowers it; the values the
\* queue is asked to signal are strictly increasing in submission order and
\* all above the completed value, so they are observed in non-decreasing
\* order.
FenceMonotonicity ==
    [][/\ mFence' >= mFence
       /\ mCurrentFence' >= mCurrentFence
       /\ (pc = "Draw" /\ pc' # pc) => mCurrentFence' > mCurrentFence
       /\ LET values == SignalValues(mCommandQueue')
          IN  /\ \A k \in DOMAIN values : values[k] > mFence'
              /\ \A j, k \in DOMAIN values : j < k => values[j] < values[k]
      ]_vars

\* C11 witness: the fence has completed the second frame while two later
\* fence points are still queued behind it
FenceMonotonicityWitness ==
    /\ mFence >= 3
    /\ Len(SignalValues(mCommandQueue)) >= 2

\* C12 Boundary of the wait condition: an Update that selects a slot whose
\* marker equals the completed value goes on to the constant-buffer updates
\* with no event created; it creates an event and goes to the wait only if
\* the completed value is strictly below the marker.
WaitBoundary ==
    [][(pc = "Idle" /\ InFrame') =>
          LET marker == mFrameResources[mCurrFrameResource'].Fence
          IN  /\ marker = mFence =>
                    (pc' = "AnimateMaterials" /\ eventHandle' = NoHandle)
              /\ (pc' # "AnimateMaterials" \/ eventHandle' # NoHandle) =>
                    mFence < marker
      ]_vars

\* C12 witness: Update has just selected a slot submitted before whose marker
\* is exactly the completed value, and went on without creating an event
WaitBoundaryWitness ==
    /\ pc = "AnimateMaterials"
    /\ eventHandle = NoHandle
    /\ CurrentMarker # 0
    /\ mFence = CurrentMarker

\* render item i was last marked dirty before frame 0
DirtySinceStart(i) ==
    framesSinceDirty[i] =
        (IF FrameNumber < gNumFrameResources THEN FrameNumber ELSE gNumFrameResources)

\* what UpdateObjectCBs does in frames 0 to 3 to an item marked dirty before
\* frame 0, where frame k is expected to select slot (k + first) % N: in
\* frames 0, 1, 2 it writes the item's payload into the selected slot and
\* leaves the counter at 2, 1, 0; in frame 3 it selects the slot of frame 0
\* again, writes nothing, and the slot holds the payload
ScenarioFrom(first) ==
    \A i \in DOMAIN mAllRitems :
        (pc = "UpdateObjectCBs" /\ pc' # pc /\ DirtySinceStart(i)
            /\ FrameNumber <= gNumFrameResources) =>
        LET slot == (FrameNumber + first) % gNumFrameResources
            payload == [World |-> XMMatrixTranspose(mAllRitems[i].World),
                        TexTransform |-> XMMatrixTranspose(mAllRitems[i].TexTransform)]
            record == mFrameResources[mCurrFrameResource].ObjectCB[mAllRitems[i].ObjCBIndex]
            recordAfter ==
                mFrameResources'[mCurrFrameResource].ObjectCB[mAllRitems[i].ObjCBIndex]
        IN  /\ mCurrFrameResource = slot
            /\ recordAfter = payload
            /\ IF FrameNumber < gNumFrameResources
               THEN /\ record # payload
                    /\ mAllRitems'[i].NumFramesDirty
                           = gNumFrameResources - 1 - FrameNumber
               ELSE /\ record = payload
                    /\ mAllRitems[i].NumFramesDirty = 0
                    /\ mAllRitems'[i].NumFramesDirty = 0

\* C13 as stated: frame 0 writes slot 0 (counter 2), frame 1 slot 1 (counter
\* 1), frame 2 slot 2 (counter 0), frame 3 selects slot 0 again and writes
\* nothing, slot 0 holding the value from frame 0.
ScenarioSlotZeroFirst == [][ScenarioFrom(0)]_vars

\* C13 amended: the index is advanced before its first use, so frame 0 writes
\* slot 1 (counter 2), frame 1 slot 2 (counter 1), frame 2 slot 0 (counter
\* 0), and frame 3 selects slot 1 again and writes nothing, slot 1 holding
\* the value from frame 0.
ScenarioSlotOneFirst == [][ScenarioFrom(1)]_vars

\* C13 witness: frame 3 has passed UpdateObjectCBs on slot 1 with an item the
\* authoring step changed before frame 0
ScenarioWitness ==
    /\ pc = "UpdateMaterialCBs"
    /\ FrameNumber = gNumFrameResources
    /\ mCurrFrameResource = 1
    /\ \E i \in DOMAIN mAllRitems :
          /\ mAllRitems[i].World \in Worlds
          /\ framesSinceDirty[i] = gNumFrameResources
          /\ mAllRitems[i].NumFramesDirty = 0

\* the steps of the CPU thread in the order the code takes them
StepOrder ==
    {<<"Initialize", "FlushCommandQueue">>, <<"FlushCommandQueue", "Idle">>,
     <<"Idle", "SetEventOnCompletion">>, <<"Idle", "AnimateMaterials">>,
     <<"SetEventOnCompletion", "WaitForSingleObject">>,
     <<"SetEventOnCompletion", "DxException">>,
     <<"DxException", "~CastleApp (unwinding)">>,
     <<"~CastleApp (unwinding)", "catch">>, <<"catch", "Exited">>,
     <<"Idle", "~CastleApp">>, <<"~CastleApp", "Exited">>,
     <<"WaitForSingleObject", "AnimateMaterials">>,
     <<"AnimateMaterials", "UpdateObjectCBs">>,
     <<"UpdateObjectCBs", "UpdateMaterialCBs">>,
     <<"UpdateMaterialCBs", "UpdateMainPassCB">>, <<"UpdateMaterialCBs", "Crashed">>,
     <<"UpdateMainPassCB", "UpdateWaves">>, <<"UpdateMainPassCB", "Draw">>,
     <<"UpdateWaves", "Draw">>, <<"Draw", "Idle">>}

\* the steps of Update that write into the current frame resource
WritingSteps ==
    {"UpdateObjectCBs", "UpdateMaterialCBs", "UpdateMainPassCB", "UpdateWaves"}

\* C14 Per-frame ordering: the CPU's steps follow the order advance, wait,
\* constant-buffer updates, submit; the ring index changes only in the first
\* step of a frame; buffers are written only by the update steps, into the
\* current slot, before that frame's submission; Draw submits commands that
\* reference the slot the preceding Update selected, followed by the Signal
\* of the advanced fence, which it stores as that slot's marker.
FrameOrdering ==
    [][/\ pc' # pc => <<pc, pc'>> \in StepOrder
       /\ (mCurrFrameResourceIndex' # mCurrFrameResourceIndex
              \/ mCurrFrameResource' # mCurrFrameResource) => pc = "Idle" /\ pc' # pc
       /\ \A s \in DOMAIN mFrameResources :
             FrameResourceData(mFrameResources'[s]) # FrameResourceData(mFrameResources[s])
                => /\ pc \in WritingSteps
                   /\ s = mCurrFrameResourceIndex
                   /\ \A k \in DOMAIN mCommandQueue : mCommandQueue[k].fr # s
       /\ Len(mCommandQueue') > Len(mCommandQueue) =>
             \/ pc \in {"Initialize", "Draw"}
             \/ pc' \in {"~CastleApp", "~CastleApp (unwinding)"}
       /\ (pc = "Draw" /\ pc' # pc) =>
             /\ mCurrentFence' = mCurrentFence + 1
             /\ mCommandQueue' = mCommandQueue \o
                    << [op |-> "Execute", fr |-> mCurrFrameResourceIndex, value |-> 0],
                       [op |-> "Signal", fr |-> NoFrameResource, value |-> mCurrentFence'] >>
             /\ mFrameResources'[mCurrFrameResourceIndex].Fence = mCurrentFence'
             /\ \A s \in Slots \ {mCurrFrameResourceIndex} :
                   mFrameResources'[s] = mFrameResources[s]
      ]_vars

\* C14 witness: a frame after the first has been submitted: its commands,
\* which reference the slot its Update selected, are on the GPU timeline and
\* the slot's marker is the advanced fence
FrameOrderingWitness ==
    /\ pc = "Idle"
    /\ FrameNumber >= 2
    /\ mCurrFrameResource = mCurrFrameResourceIndex
    /\ CurrentMarker = mCurrentFence
    /\ InFlight(mCurrFrameResource)
    /\ mFrameResources[mCurrFrameResource].PassCB[0].TotalTime = gt.TotalTime

\* C16 Dynamic geometry channel: whenever CastleApp is about to Draw, the
\* current frame resource's WavesVB has exactly VertexCount records and
\* every one of them is the vertex of the simulation's current solution,
\* whatever the dirty counters are, and the wave render item's vertex buffer
\* is the current frame resource's WavesVB.
WavesChannel ==
    (app = "CastleApp" /\ pc = "Draw") =>
        /\ DOMAIN mFrameResources[mCurrFrameResource].WavesVB = 0 .. (NumVertices - 1)
        /\ \A i \in 0 .. (NumVertices - 1) :
              mFrameResources[mCurrFrameResource].WavesVB[i] = [Pos |-> (mWaves + i) % WavePeriod]
        /\ wavesVertexBufferGPU = mCurrFrameResource

\* C16 witness: CastleApp is about to Draw a frame in which no render item
\* was dirty, on a slot whose WavesVB an earlier frame had filled
WavesChannelWitness ==
    /\ app = "CastleApp"
    /\ pc = "Draw"
    /\ CurrentMarker # 0
    /\ \A i \in DOMAIN mAllRitems : mAllRitems[i].NumFramesDirty = 0
    /\ \E s \in Slots : s # mCurrFrameResource /\
          mFrameResources[s].WavesVB # mFrameResources[mCurrFrameResource].WavesVB

\* C17 Pass constants rewritten unconditionally: a pass buffer changes only
\* in the step of UpdateMainPassCB and only in the current frame resource;
\* that step, whatever the dirty counters are, replaces record 0 by the
\* constants of this frame's view and timer; so when the CPU arrives at Draw
\* the pass record of the slot to be submitted is the one of this frame.
PassRewrittenEveryFrame ==
    [][/\ \A s \in DOMAIN mFrameResources :
             mFrameResources'[s].PassCB # mFrameResources[s].PassCB
                => (pc = "UpdateMainPassCB" /\ s = mCurrFrameResource)
       /\ LET record == [View |-> [m30 |-> 0, m31 |-> 0,
                                   m03 |-> mView.m30, m13 |-> mView.m31],
                         TotalTime |-> gt'.TotalTime, DeltaTime |-> gt'.DeltaTime]
          IN  /\ (pc = "UpdateMainPassCB" /\ pc' # pc) =>
                    /\ mFrameResources[mCurrFrameResource].PassCB[0] # record
                    /\ mFrameResources'[mCurrFrameResource].PassCB = [r \in {0} |-> record]
              /\ (pc' = "Draw" /\ pc # pc') =>
                    mFrameResources'[mCurrFrameResource'].PassCB[0] = record
      ]_vars

\* C17 witness: the CPU is about to Draw a frame in which no render item was
\* dirty, on a slot submitted before, and the slot's pass record is the one
\* of this frame
PassRewrittenWitness ==
    /\ pc = "Draw"
    /\ CurrentMarker # 0
    /\ \A i \in DOMAIN mAllRitems : mAllRitems[i].NumFramesDirty = 0
    /\ mFrameResources[mCurrFrameResource].PassCB[0].TotalTime = gt.TotalTime
    /\ \A s \in Slots \ {mCurrFrameResource} :
          mFrameResources[s].PassCB[0].TotalTime < gt.TotalTime

\* the material buffers, the object buffers of all frame resources
MaterialCBs == [s \in DOMAIN mFrameResources |-> mFrameResources[s].MaterialCB]
ObjectCBs == [s \in DOMAIN mFrameResources |-> mFrameResources[s].ObjectCB]

\* C18 Independent dirty tracking: the step of UpdateObjectCBs changes no
\* material and no material buffer; the step of UpdateMaterialCBs changes no
\* render item and no object buffer; the step of AnimateMaterials changes no
\* render item; no step changes a MatCBIndex, no two materials have the same
\* MatCBIndex, and a record of a material buffer changes only into the
\* constants of the dirty material that has that index.
IndependentDirtyTracking ==
    [][/\ (pc = "UpdateObjectCBs" /\ pc' # pc) =>
             (mMaterials' = mMaterials /\ MaterialCBs' = MaterialCBs)
       /\ (pc = "UpdateMaterialCBs" /\ pc' # pc) =>
             (mAllRitems' = mAllRitems /\ ObjectCBs' = ObjectCBs)
       /\ (pc = "AnimateMaterials" /\ pc' # pc) => mAllRitems' = mAllRitems
       /\ \A n \in DOMAIN mMaterials :
             mMaterials'[n].MatCBIndex = mMaterials[n].MatCBIndex
       /\ \A n, m \in DOMAIN mMaterials' :
             n # m => mMaterials'[n].MatCBIndex # mMaterials'[m].MatCBIndex
       /\ \A s \in DOMAIN mFrameResources :
             \A r \in DOMAIN mFrameResources[s].MaterialCB :
                mFrameResources'[s].MaterialCB[r] # mFrameResources[s].MaterialCB[r] =>
                   \E n \in DOMAIN mMaterials :
                      /\ mMaterials[n].MatCBIndex = r
                      /\ mMaterials[n].NumFramesDirty > 0
                      /\ mMaterials'[n].NumFramesDirty = mMaterials[n].NumFramesDirty - 1
                      /\ mFrameResources'[s].MaterialCB[r] =
                            [Roughness |-> mMaterials[n].Roughness,
                             MatTransform |->
                                [m30 |-> 0, m31 |-> 0,
                                 m03 |-> mMaterials[n].MatTransform.m30,
                                 m13 |-> mMaterials[n].MatTransform.m31]]
      ]_vars

\* C18 witness: in a frame in which every render item was clean,
\* UpdateMaterialCBs has written the scrolled water material at its index
\* and taken its counter down, the render items staying clean
IndependentDirtyTrackingWitness ==
    /\ app = "CastleApp"
    /\ pc = "UpdateMainPassCB"
    /\ \A i \in DOMAIN mAllRitems : mAllRitems[i].NumFramesDirty = 0
    /\ mMaterials["water"].NumFramesDirty = gNumFrameResources - 1
    /\ mMaterials["grass"].NumFramesDirty = 0
    /\ mFrameResources[mCurrFrameResource].MaterialCB[1].MatTransform.m03
          = mMaterials["water"].MatTransform.m30

\* the steps that copy dirty entities into the current frame resource
UpdatePass == {"UpdateObjectCBs", "UpdateMaterialCBs"}

\* render item i, material n without the dirty counter
RitemAuthored(ritems, i) == [ritems[i] EXCEPT !.NumFramesDirty = 0]
MaterialAuthored(materials, n) == [materials[n] EXCEPT !.NumFramesDirty = 0]

\* a step of UpdateObjectCBs or UpdateMaterialCBs changes nothing of a render
\* item or a material but the dirty counter
UpdatePassReadOnly ==
    (pc \in UpdatePass /\ pc' # pc) =>
        /\ \A i \in DOMAIN mAllRitems :
              RitemAuthored(mAllRitems', i) = RitemAuthored(mAllRitems, i)
        /\ \A n \in DOMAIN mMaterials :
              MaterialAuthored(mMaterials', n) = MaterialAuthored(mMaterials, n)

\* C19 as stated, for the steps of the frame loop itself: the update pass
\* changes nothing but dirty counters, and a step of the CPU thread that
\* changes a dirty counter is a step of the update pass.
CounterSingleWriter ==
    [][/\ UpdatePassReadOnly
       /\ (pc # "Idle" /\ pc' # pc) =>
             /\ \A i \in DOMAIN mAllRitems :
                   mAllRitems'[i].NumFramesDirty # mAllRitems[i].NumFramesDirty
                      => pc \in UpdatePass
             /\ \A n \in DOMAIN mMaterials :
                   mMaterials'[n].NumFramesDirty # mMaterials[n].NumFramesDirty
                      => pc \in UpdatePass
      ]_vars

\* C19 amended: the update pass changes nothing but dirty counters; a dirty
\* counter is lowered only by the update pass (a render item's by
\* UpdateObjectCBs, a material's by UpdateMaterialCBs) and by exactly one;
\* every other change of a counter is a reset to N made outside the update
\* pass by the logic that changes the entity, for a material by
\* AnimateMaterials on the water material.
CounterLoweredByUpdatePassOnly ==
    [][/\ UpdatePassReadOnly
       /\ \A i \in DOMAIN mAllRitems :
             /\ mAllRitems'[i].NumFramesDirty < mAllRitems[i].NumFramesDirty =>
                   /\ pc = "UpdateObjectCBs"
                   /\ mAllRitems'[i].NumFramesDirty = mAllRitems[i].NumFramesDirty - 1
             /\ mAllRitems'[i].NumFramesDirty > mAllRitems[i].NumFramesDirty =>
                   /\ pc \notin UpdatePass
                   /\ mAllRitems'[i].NumFramesDirty = gNumFrameResources
       /\ \A n \in DOMAIN mMaterials :
             /\ mMaterials'[n].NumFramesDirty < mMaterials[n].NumFramesDirty =>
                   /\ pc = "UpdateMaterialCBs"
                   /\ mMaterials'[n].NumFramesDirty = mMaterials[n].NumFramesDirty - 1
             /\ mMaterials'[n].NumFramesDirty > mMaterials[n].NumFramesDirty =>
                   /\ pc = "AnimateMaterials" /\ app = "CastleApp" /\ n = "water"
                   /\ mMaterials'[n].NumFramesDirty = gNumFrameResources
      ]_vars

\* C19 witness: UpdateObjectCBs has copied a render item the authoring step
\* changed and taken its counter down, in a frame whose AnimateMaterials had
\* raised the water material's counter from N-1 back to N
CounterWitness ==
    /\ app = "CastleApp"
    /\ pc = "UpdateMaterialCBs"
    /\ FrameNumber >= 1
    /\ mMaterials["water"].NumFramesDirty = gNumFrameResources
    /\ \E i \in DOMAIN mAllRitems :
          /\ mAllRitems[i].World \in Worlds
          /\ mAllRitems[i].NumFramesDirty = gNumFrameResources - 1

\* C20 Failure of the wait primitive is fatal: once CreateEventEx has failed
\* in CastleApp::Update, the CPU thread does not go on to the constant-buffer
\* updates or to Draw and does not complete the frame; and the exception of
\* a failed registration is followed by nothing but the report and the exit.
WaitFailureFatal ==
    app = "CastleApp" =>
        /\ eventHandle = "NULL" => pc \notin (WritingSteps \cup {"Draw", "Idle"})
        /\ pc \in {"DxException", "~CastleApp (unwinding)", "catch"} =>
              eventHandle # NoHandle

\* C21 Round-robin selection: every Update moves the index to (index + 1)
\* mod N and makes that slot current; inside frame k the current slot is
\* (k + 1) mod N; and once N frames have been submitted, the markers of the
\* N slots are the fence values of the last N frames, one each, so the last
\* N frames used every frame resource exactly once.
RoundRobinSelection ==
    [][/\ (pc = "Idle" /\ InFrame') =>
             /\ mCurrFrameResourceIndex' =
                    (IF mCurrFrameResourceIndex = gNumFrameResources - 1
                     THEN 0 ELSE mCurrFrameResourceIndex + 1)
             /\ mCurrFrameResource' = mCurrFrameResourceIndex'
       /\ InFrame' => mCurrFrameResourceIndex' = (FrameNumber' + 1) % gNumFrameResources
       /\ (pc' = "Idle" /\ FrameNumber' >= gNumFrameResources) =>
             {mFrameResources'[s].Fence : s \in Slots}
                = (mCurrentFence' - gNumFrameResources + 1) .. mCurrentFence'
      ]_vars

\* C21 witness: the fifth frame has selected the slot of the second, three
\* frames after it
RoundRobinWitness ==
    /\ InFrame
    /\ FrameNumber = gNumFrameResources + 1
    /\ mCurrFrameResourceIndex = 2
    /\ CurrentMarker = mCurrentFence - gNumFrameResources + 1

\* C22 Retire step: Draw leaves in the current slot's marker the value of the
\* Signal it queues last, a value above every other slot's marker and above
\* the slot's own marker before; no step lowers a marker, a changed marker is
\* strictly greater, no two slots hold the same nonzero marker and a nonzero
\* marker never becomes 0 again.
RetireStep ==
    [][/\ (pc = "Draw" /\ pc' # pc) =>
             /\ mCommandQueue'[Len(mCommandQueue')].op = "Signal"
             /\ mFrameResources'[mCurrFrameResource].Fence
                    = mCommandQueue'[Len(mCommandQueue')].value
             /\ \A s \in Slots :
                   mFrameResources'[mCurrFrameResource].Fence > mFrameResources[s].Fence
       /\ \A s \in DOMAIN mFrameResources :
             /\ mFrameResources'[s].Fence >= mFrameResources[s].Fence
             /\ mFrameResources[s].Fence # 0 => mFrameResources'[s].Fence # 0
       /\ \A s, t \in DOMAIN mFrameResources' :
             (s # t /\ mFrameResources'[s].Fence # 0) =>
                 mFrameResources'[s].Fence # mFrameResources'[t].Fence
      ]_vars

\* C22 witness: a slot has been retired for the second time: its marker is
\* the value of the Signal queued last and the other two slots hold smaller
\* nonzero markers
RetireStepWitness ==
    /\ pc = "Idle"
    /\ FrameNumber > gNumFrameResources
    /\ mCommandQueue # << >>
    /\ mCommandQueue[Len(mCommandQueue)].value = CurrentMarker
    /\ \A s \in Slots \ {mCurrFrameResource} :
          mFrameResources[s].Fence # 0 /\ mFrameResources[s].Fence < CurrentMarker

\* the CPU is in the wait block of Update
InWaitBlock == pc \in {"SetEventOnCompletion", "WaitForSingleObject"}

\* C23 A never-submitted slot is never waited on: inside each of the first N
\* frames the selected slot's marker is 0, the CPU is not in the wait block
\* and the frame's Update has created no event; the CPU is in the wait block
\* only from the frame after those on.
NoWaitInFirstFrames ==
    /\ (InFrame /\ FrameNumber < gNumFrameResources) =>
          /\ mFrameResources[mCurrFrameResource].Fence = 0
          /\ ~InWaitBlock
          /\ eventHandle = NoHandle
    /\ InWaitBlock =>
          /\ FrameNumber >= gNumFrameResources
          /\ mFrameResources[mCurrFrameResource].Fence # 0

\* C23 witness: the third frame runs with all earlier frames still unfinished
\* on the GPU, and has not waited
NoWaitInFirstFramesWitness ==
    /\ pc = "AnimateMaterials"
    /\ FrameNumber = gNumFrameResources - 1
    /\ mFence = 1
    /\ eventHandle = NoHandle
    /\ Len(mCommandQueue) = 2 * (gNumFrameResources - 1)

\* One step of the application thread: WinMain runs Initialize and then the
\* message loop, which calls Update and Draw whenever no message is pending
CpuStep ==
    \/ Initialize
    \/ InitializeReturn
    \/ \E dt \in DeltaTimes, handle \in CreateEventExResults : Update(dt, handle)
    \/ \E hr \in HResults : SetEventOnCompletion(hr)
    \/ WaitForSingleObject
    \/ Unwind
    \/ DestructorReturn
    \/ WinMainCatch
    \/ AnimateMaterials
    \/ UpdateObjectCBs
    \/ UpdateMaterialCBs
    \/ UpdateMainPassCB
    \/ UpdateWaves
    \/ Draw

\* The application thread and the GPU with the scene as it was built: the
\* code changes no render item after BuildRenderItems
FrameLoop == CpuStep \/ GpuExecute \/ GpuSignal

\* The program with a GPU that goes on consuming its queue and an
\* application thread that goes on running
SpecFair ==
    /\ Init
    /\ [][FrameLoop]_vars
    /\ WF_vars(GpuExecute)
    /\ WF_vars(GpuSignal)
    /\ WF_vars(CpuStep)

\* C24 Progress under a fair GPU: a wait registered in Update returns, and
\* CastleApp goes on until every frame the bound allows has been submitted,
\* unless a call of SetEventOnCompletion failed and WinMain returned.
FairProgress ==
    /\ (pc = "WaitForSingleObject") ~> (pc = "AnimateMaterials")
    /\ (app = "CastleApp") ~>
          (pc = "Exited" \/ (pc = "Idle" /\ mCurrentFence = MaxFence))

\* C24 witness: a wait has returned although the completed value had gone
\* past the awaited marker, and the frame goes on
FairProgressWitness ==
    /\ app = "CastleApp"
    /\ pc = "AnimateMaterials"
    /\ eventHandle = ClosedHandle
    /\ mFence > mFrameResources[mCurrFrameResource].Fence
    /\ mFrameResources[mCurrFrameResource].Fence # 0

\* The application thread is inside WaitForSingleObject(eventHandle, INFINITE)
\* on an event of a fence value the GPU has not reached
BlockedInWait ==
    /\ pc = "WaitForSingleObject"
    /\ eventHandle # "NULL"
    /\ mFence < mFrameResources[mCurrFrameResource].Fence

\* C25 The wait has no timeout or cancellation: while the GPU has not reached
\* the selected slot's marker, no step of the application thread is enabled,
\* so without a GPU step the thread stays in Update and submits nothing.
UnboundedWait == BlockedInWait => ~ENABLED CpuStep

\* C25 witness: the thread is blocked in the wait of the fourth frame while
\* the GPU has finished none of the frames
UnboundedWaitWitness ==
    /\ BlockedInWait
    /\ mFence = 1
    /\ mCurrentFence = gNumFrameResources + 1

\* the counters of the render items and of the materials, by entity
RitemCounters(ritems) == [i \in DOMAIN ritems |-> ritems[i].NumFramesDirty]
MaterialCounters(materials) == [n \in DOMAIN materials |-> materials[n].NumFramesDirty]

\* one step of a counter c to d that goes with the buffer records before
\* and after it: taken down by one with the payload in the record of the
\* entity's index, or left alone with that record as it was
CounterFollowsWrite(c, d, index, before, after, payload) ==
    \/ /\ d = c - 1
       /\ index \in DOMAIN after
       /\ after[index] = payload
    \/ /\ d = c
       /\ index \in DOMAIN before => after[index] = before[index]

\* C26 Decrement-on-write: every NumFramesDirty stays within
\* 0..gNumFrameResources; in a step of the update pass a counter goes down by
\* exactly one and the entity's record is written to the current frame
\* resource, or it stays and the record is not written; no other step
\* lowers a counter.
DecrementOnWrite ==
    [][/\ \A i \in DOMAIN mAllRitems' :
             mAllRitems'[i].NumFramesDirty \in 0 .. gNumFrameResources
       /\ \A n \in DOMAIN mMaterials' :
             mMaterials'[n].NumFramesDirty \in 0 .. gNumFrameResources
       /\ pc \in UpdatePass =>
             /\ \A i \in DOMAIN mAllRitems :
                   CounterFollowsWrite(
                       RitemCounters(mAllRitems)[i], RitemCounters(mAllRitems')[i],
                       mAllRitems[i].ObjCBIndex,
                       mFrameResources[mCurrFrameResource].ObjectCB,
                       mFrameResources'[mCurrFrameResource].ObjectCB,
                       ObjectConstants(mAllRitems[i]))
             /\ \A n \in DOMAIN mMaterials :
                   CounterFollowsWrite(
                       MaterialCounters(mMaterials)[n], MaterialCounters(mMaterials')[n],
                       mMaterials[n].MatCBIndex,
                       mFrameResources[mCurrFrameResource].MaterialCB,
                       mFrameResources'[mCurrFrameResource].MaterialCB,
                       MaterialConstants(mMaterials[n]))
       /\ (pc \notin UpdatePass /\ pc # "Initialize") =>
             /\ \A i \in DOMAIN mAllRitems :
                   RitemCounters(mAllRitems')[i] >= RitemCounters(mAllRitems)[i]
             /\ \A n \in DOMAIN mMaterials :
                   MaterialCounters(mMaterials')[n] >= MaterialCounters(mMaterials)[n]
      ]_vars

\* the steps of Update that follow UpdateMaterialCBs, and the end of Draw
\* once a frame has been submitted
AfterMaterialPass ==
    \/ pc \in {"UpdateMainPassCB", "UpdateWaves", "Draw"}
    \/ pc = "Idle" /\ FrameNumber >= 1

\* C27 In CastleApp, with the scene as built: AnimateMaterials sets the water
\* material's counter to gNumFrameResources in every frame,
\* UpdateMaterialCBs writes its record to the current frame resource and
\* leaves the counter at gNumFrameResources - 1, where it is after every
\* Update, never 0; every other material and every render item has counter
\* 0 once gNumFrameResources frames are submitted, and from then on no
\* object record and no other material record is written.
WaterAlwaysDirty ==
    [][(app = "CastleApp" /\ numMutations' = 0) =>
          /\ mMaterials'["water"].NumFramesDirty >= gNumFrameResources - 1
          /\ (pc = "AnimateMaterials" /\ pc' # pc) =>
                mMaterials'["water"].NumFramesDirty = gNumFrameResources
          /\ (pc = "UpdateMaterialCBs" /\ pc' # pc) =>
                /\ mMaterials'["water"].NumFramesDirty = gNumFrameResources - 1
                /\ MaterialCBs'[mCurrFrameResource][mMaterials["water"].MatCBIndex]
                      = MaterialConstants(mMaterials["water"])
          /\ AfterMaterialPass' =>
                mMaterials'["water"].NumFramesDirty = gNumFrameResources - 1
          /\ FrameNumber' >= gNumFrameResources =>
                /\ \A i \in DOMAIN mAllRitems' : mAllRitems'[i].NumFramesDirty = 0
                /\ \A n \in DOMAIN mMaterials' \ {"water"} :
                      mMaterials'[n].NumFramesDirty = 0
                /\ ObjectCBs' = ObjectCBs
                /\ \A s \in DOMAIN MaterialCBs :
                      \A k \in DOMAIN MaterialCBs[s] \ {mMaterials["water"].MatCBIndex} :
                          MaterialCBs'[s][k] = MaterialCBs[s][k]
      ]_vars

\* C27 witness: CastleApp has submitted more than gNumFrameResources frames
\* of the scene as built and is inside a further one, past UpdateMaterialCBs
WaterAlwaysDirtyWitness ==
    /\ app = "CastleApp"
    /\ numMutations = 0
    /\ pc = "UpdateMainPassCB"
    /\ FrameNumber = gNumFrameResources + 1
    /\ mMaterials["water"].NumFramesDirty = gNumFrameResources - 1
    /\ \A i \in DOMAIN mAllRitems : mAllRitems[i].NumFramesDirty = 0

\* the ObjCBIndex values in use
ObjCBIndices == {mAllRitems[i].ObjCBIndex : i \in DOMAIN mAllRitems}

\* C28 Object index assignment: once the scene is built the render items of
\* mAllRitems have pairwise distinct ObjCBIndex values, these are exactly
\* 0 .. mAllRitems.size()-1 and none is the default -1, so no two items
\* address the same record of the per-object buffer.
ObjectIndexAssignment ==
    pc # "Initialize" =>
        /\ \A i, j \in DOMAIN mAllRitems :
              i # j => mAllRitems[i].ObjCBIndex # mAllRitems[j].ObjCBIndex
        /\ ObjCBIndices = 0 .. (Len(mAllRitems) - 1)
        /\ RenderItem.ObjCBIndex \notin ObjCBIndices
        /\ \A s \in DOMAIN mFrameResources :
              DOMAIN mFrameResources[s].ObjectCB = ObjCBIndices

\* C28 witness: UpdateObjectCBs has written the records of two render items
\* to two different places of the current object buffer
ObjectIndexAssignmentWitness ==
    /\ pc = "UpdateMaterialCBs"
    /\ Len(mAllRitems) >= 2
    /\ \A i \in DOMAIN mAllRitems :
          mFrameResources[mCurrFrameResource].ObjectCB[mAllRitems[i].ObjCBIndex]
             = ObjectConstants(mAllRitems[i])
    /\ mAllRitems[1].ObjCBIndex # mAllRitems[2].ObjCBIndex

\* the numbers that size a frame resource, and the sizes the frame
\* resources have
SceneCounts == <<Len(mAllRitems), Cardinality(DOMAIN mMaterials)>>
FrameResourceSizes ==
    [s \in DOMAIN mFrameResources |->
        <<ElementCount(mFrameResources[s].ObjectCB),
          ElementCount(mFrameResources[s].MaterialCB)>>]

\* C29 Frame resources are created once, after the scene: there is none
\* before Initialize; Initialize leaves gNumFrameResources of them, each with
\* one object record per render item built and one material record per
\* material built; and after Initialize neither their number and sizes nor
\* the number of render items or of materials changes.
FrameResourcesBuiltOnce ==
    [][/\ pc = "Initialize" =>
             /\ mFrameResources = << >>
             /\ Cardinality(DOMAIN mFrameResources') = gNumFrameResources
             /\ Len(mAllRitems') = NumRitems
             /\ DOMAIN mMaterials' # {}
             /\ \A s \in DOMAIN mFrameResources' : FrameResourceSizes'[s] = SceneCounts'
       /\ pc # "Initialize" =>
             /\ DOMAIN mFrameResources' = DOMAIN mFrameResources
             /\ FrameResourceSizes' = FrameResourceSizes
             /\ SceneCounts' = SceneCounts
             /\ \A s \in DOMAIN mFrameResources : FrameResourceSizes[s] = SceneCounts
      ]_vars

\* C29 witness: frames have been submitted from every frame resource and the
\* sizes are those of the scene
FrameResourcesBuiltOnceWitness ==
    /\ pc = "Idle"
    /\ FrameNumber > gNumFrameResources
    /\ Cardinality(DOMAIN mFrameResources) = gNumFrameResources
    /\ \A s \in DOMAIN mFrameResources :
          /\ mFrameResources[s].Fence # 0
          /\ FrameResourceSizes[s] = SceneCounts

\* the members of the application object, the frame resources among them,
\* have been released: the destructor has returned
FrameResourcesReleased == pc \in {"catch", "Exited"}

\* the frame loop has been entered: Initialize has returned
FrameLoopEntered == pc \notin {"Initialize", "FlushCommandQueue"}

\* C30 Quiescence at the boundaries of the frame loop: once Initialize has
\* returned the initialization commands have completed on the GPU, whatever
\* the frame loop does afterwards; and once the frame resources are released
\* the GPU has completed every command list and reached every marker and
\* the last fence value, so nothing in flight refers to a released frame
\* resource.
QuiescentBoundaries ==
    /\ FrameLoopEntered =>
          /\ mFence >= 1
          /\ ~InFlight(NoFrameResource)
    /\ FrameResourcesReleased =>
          /\ mCommandQueue = << >>
          /\ mFence = mCurrentFence
          /\ \A s \in DOMAIN mFrameResources :
                /\ ~InFlight(s)
                /\ mFrameResources[s].Fence <= mFence

\* C30 witness: the application has ended after frames were submitted from
\* every frame resource, the last of them just before the window was closed
QuiescentBoundariesWitness ==
    /\ pc = "Exited"
    /\ eventHandle # "NULL"
    /\ \A s \in DOMAIN mFrameResources : mFrameResources[s].Fence # 0
    /\ mFrameResources[mCurrFrameResource].Fence = mCurrentFence - 1

(***************************************************************************)
(* One upload buffer byte by byte: what CopyData writes and what the draw  *)
(* calls bind.                                                             *)
(***************************************************************************)
MaxElements == 3        \* largest elementCount of the buffer taken by itself
NumPayloads == 2        \* distinct record contents copied into it

\* the constant records the draw calls address by index
ElementTypes == {"ObjectConstants", "MaterialConstants"}

\* sizeof(T): ObjectConstants is two XMFLOAT4X4; MaterialConstants is an
\* XMFLOAT4, an XMFLOAT3, a float and an XMFLOAT4X4
Sizeof(T) == IF T = "ObjectConstants" THEN 128 ELSE 96

\* d3dUtil::CalcConstantBufferByteSize: (byteSize + 255) & ~255
CalcConstantBufferByteSize(byteSize) == ((byteSize + 255) \div 256) * 256

\* the bytes of the record of type T with content d
Bytes(T, d) == [k \in 0 .. (Sizeof(T) - 1) |-> <<d, k>>]

\* UploadBuffer<T>(device, elementCount, isConstantBuffer): the element size
\* is sizeof(T), rounded up for a constant buffer, and elementCount elements
\* are mapped
UploadBufferT(T, elementCount, isConstantBuffer) ==
    LET elementByteSize == IF isConstantBuffer
                           THEN CalcConstantBufferByteSize(Sizeof(T))
                           ELSE Sizeof(T)
    IN  [T |-> T, mElementByteSize |-> elementByteSize, elementCount |-> elementCount,
         mMappedData |-> [b \in 0 .. (elementByteSize * elementCount - 1) |-> <<0, 0>>]]

\* memcpy(&mMappedData[elementIndex * mElementByteSize], &data, sizeof(T))
Memcpy(buffer, elementIndex, data) ==
    LET start == elementIndex * buffer.mElementByteSize
    IN  [b \in DOMAIN buffer.mMappedData |->
            IF b >= start /\ b < start + Sizeof(buffer.T)
            THEN Bytes(buffer.T, data)[b - start]
            ELSE buffer.mMappedData[b]]

\* the address bound with the record size in place of the aligned size
CBAddressUnaligned(T, index) == index * Sizeof(T)

\* objCBAddress and matCBAddress of DrawRenderItems, relative to
\* GetGPUVirtualAddress(): index * CalcConstantBufferByteSize(sizeof(T))
CBAddress(T, index) == index * CalcConstantBufferByteSize(Sizeof(T))

\* the record the shader reads through a constant buffer view bound at
\* CBAddress(T, index); bytes beyond the resource are not the buffer's
GpuRead(buffer, index) ==
    [k \in 0 .. (Sizeof(buffer.T) - 1) |->
        IF CBAddress(buffer.T, index) + k \in DOMAIN buffer.mMappedData
        THEN buffer.mMappedData[CBAddress(buffer.T, index) + k]
        ELSE <<-1, -1>>]

\* a frame resource's constant buffer of some type and size, just built
BufferInit ==
    /\ AppInit
    /\ \E T \in ElementTypes, elementCount \in 1 .. MaxElements :
          uploadBuffer = UploadBufferT(T, elementCount, TRUE)
    /\ copyDataCall = NoCopyDataCall

\* UploadBuffer::CopyData(elementIndex, data) with an index inside the buffer
UploadBufferCopyData(elementIndex, data) ==
    /\ elementIndex < uploadBuffer.elementCount
    /\ uploadBuffer' = [uploadBuffer EXCEPT !.mMappedData =
                            Memcpy(uploadBuffer, elementIndex, data)]
    /\ copyDataCall' = [elementIndex |-> elementIndex, data |-> data]
    /\ UNCHANGED appVars

BufferNext ==
    \E elementIndex \in 0 .. (MaxElements - 1), data \in 1 .. NumPayloads :
        UploadBufferCopyData(elementIndex, data)

SpecBuffer == BufferInit /\ [][BufferNext]_vars

\* C15 Ring buffer addressing: after CopyData(i, d) the record read at the
\* address the draw binds for index i is exactly the bytes of d, and the
\* record read at the address of every other index j is what it was before.
RingBufferAddressing ==
    [][LET i == copyDataCall'.elementIndex
       IN  /\ GpuRead(uploadBuffer', i) = Bytes(uploadBuffer.T, copyDataCall'.data)
           /\ \A j \in 0 .. (uploadBuffer.elementCount - 1) :
                 j # i => GpuRead(uploadBuffer', j) = GpuRead(uploadBuffer, j)
      ]_vars

\* C15 witness: two different records have been copied to neighbouring
\* indices of a buffer, the lower index last
RingBufferAddressingWitness ==
    /\ copyDataCall # NoCopyDataCall
    /\ uploadBuffer # NoUploadBuffer
    /\ copyDataCall.elementIndex = 0
    /\ copyDataCall.data = 2
    /\ uploadBuffer.elementCount >= 2
    /\ GpuRead(uploadBuffer, 1) = Bytes(uploadBuffer.T, 1)
====
